---------------------------- MODULE Spec2Model ----------------------------
(***************************************************************************)
(* A model of the reporting pipeline of ProjectReportCreator:              *)
(*   src/constants.py            the staging / priority text mappers       *)
(*   src/utilities/graph_utils.py the jitter generator, the scatter plot,  *)
(*                               the pivot step and the bar renderers      *)
(*                                                                         *)
(* Conventions.                                                            *)
(*  - A pandas value that may be missing is a record [isnan, num]: NaN is  *)
(*    [isnan |-> TRUE], a number k is [isnan |-> FALSE, num |-> k].        *)
(*  - A DataFrame is a sequence of rows; a row is a function from column   *)
(*    names (strings, as in the source) to values.                         *)
(*  - Engineer and month keys are naturals standing for labels in their    *)
(*    sort order (pandas sorts the axes of a pivot).                       *)
(*  - Jittered coordinates are exact rationals kept as integers in units   *)
(*    of 1/Unit.                                                           *)
(*  - TLA+ strings hold no characters outside the basic plane: the emoji   *)
(*    of the source are written <U+xxxxx>.                                 *)
(***************************************************************************)
EXTENDS Integers, Sequences, FiniteSets, TLC

VARIABLES
    slide,        \* mapper: the texts handed to the slide canvas, one per call
    series,       \* jitter: the input sequence of add_jitter
    jitter_amount,\* jitter: the magnitude, in tenths
    jittered,     \* jitter: the returned sequence (<<>> before the call)
    jpc,          \* jitter: "idle" | "ready" | "done"
    csv,          \* scatter: the rows of the file at csv_file_path
    project_df,   \* scatter: the DataFrame load_and_prepare_data returns
    entropy,      \* scatter: the draws taken from the shared random source
    scatter_amount, \* scatter: the jitter_amount of create_scatter_plot, in tenths
    scatter,      \* scatter: the plt.scatter calls made, in order
    spc,          \* scatter: "idle" | "start" | "loaded" | "showing" | "shown"
    figures,      \* render: the open figures of pyplot, the current one last
    artifacts,    \* render: the files written, one record per path
    calls         \* render: the render calls made, in order, with their results

mapperVars == <<slide>>
jitterVars == <<series, jitter_amount, jittered, jpc>>
scatterVars == <<csv, project_df, entropy, scatter_amount, scatter, spc>>
renderVars == <<figures, artifacts, calls>>
vars == <<slide, series, jitter_amount, jittered, jpc,
          csv, project_df, entropy, scatter_amount, scatter, spc,
          figures, artifacts, calls>>

-----------------------------------------------------------------------------
(* Bounds of the model *)

\* calls made in one mapper run
MaxMapperCalls == 2
\* np.random.rand draws k / RandResolution for k in 0 .. RandResolution-1
RandResolution == 3
\* jitter magnitudes 0, 0.1, ... MaxJitterTenths / 10
MaxJitterTenths == 2
\* length of a sequence handed to add_jitter
MaxSeriesLen == 2
\* rows of a project file of more than one row
MaxCsvRows == 2
\* engineers ('Closed by', 'AssignedTo') 1 .. NumEngineers, in sort order
NumEngineers == 2
\* months ('YearMonth') 1 .. NumMonths, in sort order
NumMonths == 2
\* 'ResolvedCount', 'Age_BusinessDays' and 'TicketCount' are 1 .. MaxCount
MaxCount == 2
\* rows of the table of a single pivot
MaxRows == 3
\* render calls in one run
MaxRenderCalls == 2

-----------------------------------------------------------------------------
(* pandas / numpy values *)

NaN == [isnan |-> TRUE, num |-> 0]
Num(k) == [isnan |-> FALSE, num |-> k]
IsNaN(x) == x.isnan

\* all sequences over S of length at most n
SeqsUpTo(S, n) == UNION {[1..k -> S] : k \in 0..n}

\* all sequences over S of length at least one and at most n
TablesUpTo(S, n) == UNION {[1..k -> S] : k \in 1..n}

-----------------------------------------------------------------------------
(* src/constants.py *)

STAGING_TEXT_REPRESENTATION ==
    [l \in {"Triage", "Analysis", "Alpha Test", "Beta Test", "Roll-out"} |->
        CASE l = "Triage"     -> "▰▱▱▱▱"
          [] l = "Analysis"   -> "▰▰▱▱▱"
          [] l = "Alpha Test" -> "▰▰▰▱▱"
          [] l = "Beta Test"  -> "▰▰▰▰▱"
          [] l = "Roll-out"   -> "▰▰▰▰▰"]

PRIORITY_TEXT_REPRESENTATION ==
    [l \in {"P1", "P2", "P3", "P4", "P5"} |->
        CASE l = "P1" -> "P1 <U+1F525>"
          [] l = "P2" -> "P2 <U+1F6A8>"
          [] l = "P3" -> "P3 <U+2B50>"
          [] l = "P4" -> "P4 <U+1F422>"
          [] l = "P5" -> "P5 <U+1F40C>"]

Returned(v) == [status |-> "returned", value |-> v]
Raised(e) == [status |-> "raised", value |-> e]

\* dict.get(key, default): the value of a key of the dict, the default otherwise
DictGet(d, key, default) ==
    IF key \in DOMAIN d THEN Returned(d[key]) ELSE Returned(default)

\* d[key]: a KeyError for a key the dict does not hold
DictSubscript(d, key, default) ==
    IF key \in DOMAIN d THEN Returned(d[key]) ELSE Raised("KeyError")

get_staging_text(staging) ==
    DictGet(STAGING_TEXT_REPRESENTATION, staging, "-----")

\* a lookup by subscript instead of dict.get
get_priority_text_subscript(priority) ==
    DictSubscript(PRIORITY_TEXT_REPRESENTATION, priority, "unknown")

get_priority_text(priority) ==
    DictGet(PRIORITY_TEXT_REPRESENTATION, priority, "unknown")

\* the labels the mapper is called with: every key of both tables and labels of
\* neither, the empty string and the mapped texts themselves among them
MapperLabels ==
    DOMAIN STAGING_TEXT_REPRESENTATION \cup DOMAIN PRIORITY_TEXT_REPRESENTATION
        \cup {"P9", "", "triage", "P1 <U+1F525>", "-----", "unknown"}

GetStagingText(label) ==
    /\ Len(slide) < MaxMapperCalls
    /\ slide' = Append(slide, [fn |-> "get_staging_text", label |-> label,
                               result |-> get_staging_text(label)])
    /\ UNCHANGED <<jitterVars, scatterVars, renderVars>>

GetPriorityText(label) ==
    /\ Len(slide) < MaxMapperCalls
    /\ slide' = Append(slide, [fn |-> "get_priority_text", label |-> label,
                               result |-> get_priority_text(label)])
    /\ UNCHANGED <<jitterVars, scatterVars, renderVars>>

-----------------------------------------------------------------------------
(* src/utilities/graph_utils.py: add_jitter *)

\* one unit of a jittered coordinate is 1 / Unit: a draw is k / RandResolution,
\* a magnitude is j / 10, and the offset (draw - 0.5) * magnitude is
\* (2k - RandResolution) * j / (2 * RandResolution * 10)
Unit == 2 * RandResolution * 10

\* np.random.rand(n): n draws, each uniform in [0, 1)
Rand(n) == [1..n -> 0..(RandResolution - 1)]

\* draw * jitter_amount: the offset without the centring
JitterOffsetUncentred(draw, amount) == 2 * draw * amount

\* (draw - 0.5) * jitter_amount, in units of 1 / Unit
JitterOffset(draw, amount) == (2 * draw - RandResolution) * amount

\* float addition: NaN + x is NaN
AddOffset(v, offset) ==
    IF IsNaN(v) THEN NaN ELSE Num(v.num * Unit + offset)

\* series + (np.random.rand(len(series)) - 0.5) * jitter_amount, with the draws
\* of np.random.rand given; the result is a new sequence in units of 1 / Unit
add_jitter(s, amount, draws) ==
    [i \in 1..Len(s) |-> AddOffset(s[i], JitterOffset(draws[i], amount))]

\* the values of a numeric pandas series: the ranks 0 .. 5 and the missing value
SeriesValues == {Num(k) : k \in 0..5} \cup {NaN}

JitterInputs ==
    /\ series \in SeqsUpTo(SeriesValues, MaxSeriesLen)
    /\ jitter_amount \in 0..MaxJitterTenths
    /\ jittered = <<>>
    /\ jpc = "ready"

JitterIdle ==
    /\ series = <<>>
    /\ jitter_amount = 0
    /\ jittered = <<>>
    /\ jpc = "idle"

\* add_jitter(series, jitter_amount): one np.random.rand(len(series)), whose
\* draws leave the shared random source, and a new sequence returned
AddJitter ==
    /\ jpc = "ready"
    /\ \E draws \in Rand(Len(series)) :
          /\ entropy' = entropy \o draws
          /\ jittered' = add_jitter(series, jitter_amount, draws)
    /\ jpc' = "done"
    /\ UNCHANGED <<series, jitter_amount>>
    /\ UNCHANGED <<csv, project_df, scatter_amount, scatter, spc>>
    /\ UNCHANGED <<mapperVars, renderVars>>

-----------------------------------------------------------------------------
(* matplotlib.pyplot: the open figures, the current one last *)

\* a figure with nothing drawn on it; figsize is in tenths of an inch
NewFigure(figsize) == [figsize |-> figsize, artists |-> <<>>]

\* plt.figure(figsize=...): a new figure, which becomes the current one
PltFigure(figs, figsize) == Append(figs, NewFigure(figsize))

\* the figure a drawing call of pyplot acts on: the current one, made with the
\* default size when none is open
Gcf(figs) == IF figs = <<>> THEN <<NewFigure(<<64, 48>>)>> ELSE figs

\* a drawing call of pyplot (plt.title, plt.barh, ...): one more artist on the
\* current figure
PltDraw(figs, artist) ==
    LET f == Gcf(figs)
    IN  [f EXCEPT ![Len(f)].artists = Append(@, artist)]

\* a sequence of drawing calls: all of them land on the figure that is current
\* at the first
PltDrawAll(figs, artists) ==
    IF artists = <<>> THEN figs
    ELSE LET f == Gcf(figs)
         IN  [f EXCEPT ![Len(f)].artists = @ \o artists]

\* plt.close(): the current figure is closed, the one before it is current
PltClose(figs) ==
    IF figs = <<>> THEN figs ELSE SubSeq(figs, 1, Len(figs) - 1)

\* what plt.savefig writes: the current figure
PltSavefig(figs) == Gcf(figs)[Len(Gcf(figs))]

\* the figures open when plt.show() returns. The backend is not chosen by the
\* source: one with windows (TkAgg, QtAgg, MacOSX) returns when every window
\* has been closed, and closing a window destroys its figure; one without
\* (Agg, the backend of a run with no display) closes no figure
PltShow(figs, windows) == IF windows THEN <<>> ELSE figs

Text(op, text) == [op |-> op, text |-> text]

-----------------------------------------------------------------------------
(* src/utilities/graph_utils.py: load_and_prepare_data, create_scatter_plot *)

effort_mapping ==
    [l \in {"Hours", "Days", "Weeks", "Months", "Quarters"} |->
        CASE l = "Hours"    -> 1
          [] l = "Days"     -> 2
          [] l = "Weeks"    -> 3
          [] l = "Months"   -> 4
          [] l = "Quarters" -> 5]

impact_mapping ==
    [l \in {"Very Low", "Low", "Medium", "High", "Very High"} |->
        CASE l = "Very Low"  -> 1
          [] l = "Low"       -> 2
          [] l = "Medium"    -> 3
          [] l = "High"      -> 4
          [] l = "Very High" -> 5]

\* a dict keeps the order of its items: the items as a sequence
priority_color_mapping ==
    << [key |-> "P1 <U+1F525>", value |-> "red"],
       [key |-> "P2", value |-> "orange"],
       [key |-> "P3", value |-> "green"],
       [key |-> "P4", value |-> "blue"] >>

Keys(items) == {items[k].key : k \in 1..Len(items)}

\* a map that coerces a label that is no key to zero
MapNumberZero(d, label) == IF label \in DOMAIN d THEN Num(d[label]) ELSE Num(0)

\* Series.map(dict) of one label to a number: NaN for a label that is no key
MapNumber(d, label) == IF label \in DOMAIN d THEN Num(d[label]) ELSE NaN

\* Series.map(dict) of one label to a color; the missing value of this text
\* column is written "NaN"
MapColor(items, label) ==
    IF label \in Keys(items)
    THEN items[CHOOSE k \in 1..Len(items) : items[k].key = label].value
    ELSE "NaN"

\* the columns of the file and the columns load_and_prepare_data adds
CsvColumns == {"Estimated Effort", "Estimated Impact", "Priority"}
DfColumns == CsvColumns \cup {"Numerical Effort", "Numerical Impact", "Color"}

PrepareRow(r) ==
    [c \in DfColumns |->
        CASE c = "Numerical Effort" -> MapNumber(effort_mapping, r["Estimated Effort"])
          [] c = "Numerical Impact" -> MapNumber(impact_mapping, r["Estimated Impact"])
          [] c = "Color" -> MapColor(priority_color_mapping, r["Priority"])
          [] OTHER -> r[c]]

\* the DataFrame of load_and_prepare_data: one row per row of the file, in order
load_and_prepare_data(rows) == [i \in 1..Len(rows) |-> PrepareRow(rows[i])]

\* the index labels of the whole frame: a selection that filters nothing
SubsetIndexUnfiltered(df, priority) == [i \in 1..Len(df) |-> i]

\* the index labels of df[df['Priority'] == priority], ascending
SubsetIndex(df, priority) ==
    SelectSeq([i \in 1..Len(df) |-> i], LAMBDA i : df[i]["Priority"] = priority)

\* column c of the rows of df at the index labels idx
Column(df, idx, c) == [j \in 1..Len(idx) |-> df[idx[j]][c]]

\* the draws taken before the iteration of the k-th item of the mapping: two
\* np.random.rand calls, each of the length of the subset, per earlier item
RECURSIVE DrawsBefore(_, _, _)
DrawsBefore(df, items, k) ==
    IF k <= 1 THEN 0
    ELSE DrawsBefore(df, items, k - 1)
            + 2 * Len(SubsetIndex(df, items[k - 1].key))

\* what plt.scatter draws of the points (x[j], y[j]): a point with a NaN
\* coordinate is masked
Drawn(idx, x, y) ==
    {[index |-> idx[j], x |-> x[j].num, y |-> y[j].num] :
        j \in {j \in 1..Len(idx) : ~IsNaN(x[j]) /\ ~IsNaN(y[j])}}

\* an iteration that jitters y by the draws x was jittered by
ScatterCallSharedDraws(df, items, k, amount, tape) ==
    LET idx == SubsetIndex(df, items[k].key)
        n == Len(idx)
        pos == DrawsBefore(df, items, k)
        x == add_jitter(Column(df, idx, "Numerical Effort"), amount,
                        SubSeq(tape, pos + 1, pos + n))
        y == add_jitter(Column(df, idx, "Numerical Impact"), amount,
                        SubSeq(tape, pos + 1, pos + n))
    IN  [label |-> items[k].key, c |-> items[k].value, index |-> idx,
         x |-> x, y |-> y, drawn |-> Drawn(idx, x, y)]

\* one iteration of the loop of create_scatter_plot: the plt.scatter call for
\* the k-th item, with tape the draws the whole plot takes from the random
\* source; x is jittered first, y next, each by a np.random.rand of its own
ScatterCall(df, items, k, amount, tape) ==
    LET idx == SubsetIndex(df, items[k].key)
        n == Len(idx)
        pos == DrawsBefore(df, items, k)
        x == add_jitter(Column(df, idx, "Numerical Effort"), amount,
                        SubSeq(tape, pos + 1, pos + n))
        y == add_jitter(Column(df, idx, "Numerical Impact"), amount,
                        SubSeq(tape, pos + n + 1, pos + 2 * n))
    IN  [label |-> items[k].key, c |-> items[k].value, index |-> idx,
         x |-> x, y |-> y, drawn |-> Drawn(idx, x, y)]

\* the figure of create_scatter_plot at its plt.show: plt.figure with a figsize
\* of 14 x 10 inches, one plt.scatter per series, then the title, the axis
\* labels, the grid and the legend
ScatterFigure(figs, plots) ==
    PltDrawAll(PltFigure(figs, <<140, 100>>),
        [k \in 1..Len(plots) |->
            [op |-> "scatter", x |-> plots[k].x, y |-> plots[k].y,
             c |-> plots[k].c, label |-> plots[k].label, s |-> 100,
             alpha |-> "0.6", marker |-> "o"]]
        \o << Text("title", "Project Comparison: Estimated Effort vs Estimated Impact (Jittered)"),
              Text("xlabel", "Estimated Effort (Numerical)"),
              Text("ylabel", "Estimated Impact (Numerical)"),
              Text("grid", "True"),
              Text("legend", "Priority") >>)

\* the draws one create_scatter_plot takes from the random source
DrawsOfPlot(df, items) == DrawsBefore(df, items, Len(items) + 1)

\* the file at csv_file_path: every one-row file over all the labels of the
\* mappings and one unknown label per column, and every file of at most
\* MaxCsvRows rows over a few of them
CsvRow(e, i, p) ==
    [c \in CsvColumns |->
        CASE c = "Estimated Effort" -> e
          [] c = "Estimated Impact" -> i
          [] c = "Priority" -> p]

AllCsvRows ==
    {CsvRow(e, i, p) :
        e \in DOMAIN effort_mapping \cup {"Years"},
        i \in DOMAIN impact_mapping \cup {"Critical"},
        p \in Keys(priority_color_mapping) \cup {"P1", "P5"}}

FewCsvRows ==
    { CsvRow("Quarters", "Critical", "P1 <U+1F525>"),
      CsvRow("Hours", "High", "P3"),
      CsvRow("Years", "High", "P3"),
      CsvRow("Hours", "High", "P1") }

CsvFiles == [1..1 -> AllCsvRows] \cup SeqsUpTo(FewCsvRows, MaxCsvRows)

ScatterInputs ==
    /\ csv \in CsvFiles
    /\ project_df = <<>>
    /\ entropy = <<>>
    /\ scatter_amount = 0
    /\ scatter = <<>>
    /\ spc = "start"

ScatterIdle ==
    /\ csv = <<>>
    /\ project_df = <<>>
    /\ entropy = <<>>
    /\ scatter_amount = 0
    /\ scatter = <<>>
    /\ spc = "idle"

\* project_df, priority_color_mapping = load_and_prepare_data(csv_file_path)
LoadAndPrepareData ==
    /\ spc = "start"
    /\ project_df' = load_and_prepare_data(csv)
    /\ spc' = "loaded"
    /\ UNCHANGED <<csv, entropy, scatter_amount, scatter>>
    /\ UNCHANGED <<mapperVars, jitterVars, renderVars>>

\* create_scatter_plot(project_df, priority_color_mapping, jitter_amount) up
\* to its call of plt.show(): the scatter calls of the loop, the title, the
\* labels, the grid and the legend, on a figure of the function's own
CreateScatterPlot ==
    /\ spc = "loaded"
    /\ \E amount \in 0..MaxJitterTenths :
       \E tape \in Rand(DrawsOfPlot(project_df, priority_color_mapping)) :
          /\ scatter_amount' = amount
          /\ entropy' = entropy \o tape
          /\ scatter' = [k \in 1..Len(priority_color_mapping) |->
                ScatterCall(project_df, priority_color_mapping, k, amount, tape)]
          /\ figures' = ScatterFigure(figures, scatter')
    /\ spc' = "showing"
    /\ UNCHANGED <<csv, project_df>>
    /\ UNCHANGED <<artifacts, calls>>
    /\ UNCHANGED <<mapperVars, jitterVars>>

\* plt.show() returns and create_scatter_plot with it: at once on a backend
\* without windows, and on one with windows when the user has closed them (the
\* call blocks in the event loop of the backend until then). The function
\* never closes its figure itself
PltShowReturns ==
    /\ spc = "showing"
    /\ \E windows \in BOOLEAN : figures' = PltShow(figures, windows)
    /\ spc' = "shown"
    /\ UNCHANGED <<csv, project_df, entropy, scatter_amount, scatter>>
    /\ UNCHANGED <<artifacts, calls>>
    /\ UNCHANGED <<mapperVars, jitterVars>>

-----------------------------------------------------------------------------
(* pandas: DataFrame.pivot and fillna *)

\* the members of a set of naturals in ascending order
RECURSIVE Sorted(_)
Sorted(S) ==
    IF S = {} THEN <<>>
    ELSE LET m == CHOOSE x \in S : \A y \in S : x <= y
         IN  <<m>> \o Sorted(S \ {m})

\* the values of column c in the order of their first row
RECURSIVE FirstSeen(_, _)
FirstSeen(df, c) ==
    IF df = <<>> THEN <<>>
    ELSE LET before == FirstSeen(SubSeq(df, 1, Len(df) - 1), c)
             v == df[Len(df)][c]
         IN  IF \E k \in 1..Len(before) : before[k] = v
             THEN before ELSE Append(before, v)

\* the keys of an axis left in the order of their first row
AxisKeysFirstSeen(df, c) == FirstSeen(df, c)

\* the keys of an axis of a pivot: the distinct values of the column, sorted
AxisKeys(df, c) == Sorted({df[i][c] : i \in 1..Len(df)})

Range(q) == {q[k] : k \in 1..Len(q)}

\* two rows of df share their (index, columns) pair
HasDuplicates(df, index, columns) ==
    \E i, j \in 1..Len(df) :
        /\ i < j
        /\ df[i][index] = df[j][index]
        /\ df[i][columns] = df[j][columns]

\* df.pivot(index=..., columns=..., values=...): a ValueError ("Index contains
\* duplicate entries, cannot reshape") when two rows share their pair; else
\* the grid over the sorted keys of both axes, NaN where no row has the pair
pivot(df, index, columns, values) ==
    IF HasDuplicates(df, index, columns)
    THEN [status |-> "ValueError", index |-> <<>>, columns |-> <<>>,
          cells |-> <<>>]
    ELSE LET rows == AxisKeys(df, index)
             cols == AxisKeys(df, columns)
         IN  [status |-> "ok", index |-> rows, columns |-> cols,
              cells |-> [rc \in Range(rows) \X Range(cols) |->
                  IF \E i \in 1..Len(df) :
                        df[i][index] = rc[1] /\ df[i][columns] = rc[2]
                  THEN Num(df[CHOOSE i \in 1..Len(df) :
                        df[i][index] = rc[1] /\ df[i][columns] = rc[2]][values])
                  ELSE NaN]]

\* .fillna(value): every missing cell becomes the value
fillna(table, value) ==
    [table EXCEPT !.cells =
        [rc \in DOMAIN table.cells |->
            IF IsNaN(table.cells[rc]) THEN Num(value) ELSE table.cells[rc]]]

\* the monthly pivot with the key column taken for the values
MonthlyPivotOfKeys(df) ==
    fillna(pivot(df, "YearMonth", "Closed by", "YearMonth"), 0)

\* the pivot of the two monthly charts: months as rows, engineers as columns
MonthlyPivot(df) ==
    fillna(pivot(df, "YearMonth", "Closed by", "ResolvedCount"), 0)

\* the pivot of the per-engineer chart: engineers as rows, months as columns
EngineerPivot(df) ==
    fillna(pivot(df, "Closed by", "YearMonth", "ResolvedCount"), 0)

-----------------------------------------------------------------------------
(* pandas: DataFrame.plot(kind='bar', cmap='tab20') *)

\* the colors of the tab20 colormap
Tab20N == 20

\* the significant bits of a double (numpy float64)
DoubleBits == 53

\* A non-negative double is kept exactly, as the bits of a natural (the first
\* bit first, <<>> for zero) over 2^frac.
Double(bits, frac) == [bits |-> bits, frac |-> frac]

\* the bits of a natural, and the natural of its bits
RECURSIVE NatBits(_)
NatBits(k) == IF k = 0 THEN <<>> ELSE Append(NatBits(k \div 2), k % 2)

RECURSIVE BitsNat(_)
BitsNat(bits) ==
    IF bits = <<>> THEN 0
    ELSE 2 * BitsNat(SubSeq(bits, 1, Len(bits) - 1)) + bits[Len(bits)]

\* the bits of the natural plus one
RECURSIVE Increment(_)
Increment(bits) ==
    IF bits = <<>> THEN <<1>>
    ELSE IF bits[Len(bits)] = 0 THEN [bits EXCEPT ![Len(bits)] = 1]
    ELSE Append(Increment(SubSeq(bits, 1, Len(bits) - 1)), 0)

\* the double nearest to an exact result, ties to even: the result is the bits
\* over 2^frac, and a little more when sticky
RoundDouble(bits, frac, sticky) ==
    IF Len(bits) <= DoubleBits THEN Double(bits, frac)
    ELSE LET keep == SubSeq(bits, 1, DoubleBits)
             rest == SubSeq(bits, DoubleBits + 1, Len(bits))
             above == sticky \/ \E i \in 2..Len(rest) : rest[i] = 1
             up == rest[1] = 1 /\ (above \/ keep[DoubleBits] = 1)
         IN  Double(IF up THEN Increment(keep) ELSE keep, frac - Len(rest))

\* the least z with d <= 2^z
RECURSIVE Log2Ceil(_)
Log2Ceil(d) == IF d <= 1 THEN 0 ELSE 1 + Log2Ceil((d + 1) \div 2)

\* the long division of r by d: the bits of the quotient, one before the binary
\* point, until the division ends or one bit more than a double holds is
\* found, and the remainder left
RECURSIVE LongDivision(_, _, _)
LongDivision(r, d, bits) ==
    IF (r = 0 /\ bits # <<>>) \/ Len(bits) = DoubleBits + 1
    THEN [bits |-> bits, r |-> r]
    ELSE LET b == IF r >= d THEN 1 ELSE 0
         IN  LongDivision(2 * (r - b * d), d, Append(bits, b))

\* the double 1.0 / d of a natural d >= 1: 2^z / d is in [1, 2) for the least z
\* with d <= 2^z
DoubleReciprocal(d) ==
    LET z == Log2Ceil(d)
        q == LongDivision(2 ^ z, d, <<>>)
    IN  RoundDouble(q.bits, z + Len(q.bits) - 1, q.r # 0)

\* the bits of the product of the first i bits and a natural k, plus the carry
RECURSIVE TimesBits(_, _, _, _)
TimesBits(bits, i, k, carry) ==
    IF i = 0 THEN NatBits(carry)
    ELSE LET acc == bits[i] * k + carry
         IN  IF acc % 2 = 0
             THEN Append(TimesBits(bits, i - 1, k, acc \div 2), 0)
             ELSE Append(TimesBits(bits, i - 1, k, acc \div 2), 1)

\* the double x * k of a double x and a natural k
DoubleTimes(x, k) ==
    IF k = 0 \/ x.bits = <<>> THEN Double(<<>>, 0)
    ELSE RoundDouble(TimesBits(x.bits, Len(x.bits), k, 0), x.frac, FALSE)

\* int(x) of a double x
DoubleInt(x) ==
    IF Len(x.bits) <= x.frac THEN 0
    ELSE BitsNat(SubSeq(x.bits, 1, Len(x.bits) - x.frac))

\* np.linspace(0, 1, n)[p - 1]: (p - 1) * step with step the double 1.0 / (n - 1),
\* the last sample set to the stop value itself
Linspace01(p, n) ==
    IF n <= 1 THEN Double(<<>>, 0)
    ELSE IF p = n THEN Double(<<1>>, 0)
    ELSE DoubleTimes(DoubleReciprocal(n - 1), p - 1)

\* the color of the p-th of n columns: tab20 at x = np.linspace(0, 1, n)[p - 1],
\* entry int(x * 20) of the map in double arithmetic, the last entry at x = 1
Tab20Index(p, n) ==
    LET e == DoubleInt(DoubleTimes(Linspace01(p, n), Tab20N))
    IN  IF e >= Tab20N THEN Tab20N - 1 ELSE e

\* a plot drawn on the current figure of pyplot
PlotFigureCurrent(figs, figsize) == Gcf(figs)

\* the figure DataFrame.plot draws on when it is given no axes: a new one
PlotFigure(figs, figsize) == PltFigure(figs, figsize)

\* pivot_table.plot(kind='bar', stacked=..., figsize=..., cmap='tab20'): on a
\* figure of its own, one bar container per column, in column order, each with
\* its color and its heights over the rows
DataFramePlotBar(figs, table, stacked, figsize) ==
    LET n == Len(table.columns)
    IN  PltDrawAll(PlotFigure(figs, figsize),
            [p \in 1..n |->
                [op |-> "bar", label |-> table.columns[p],
                 color |-> Tab20Index(p, n), stacked |-> stacked,
                 ticks |-> table.index,
                 heights |-> [r \in 1..Len(table.index) |->
                     table.cells[<<table.index[r], table.columns[p]>>]]]])

\* the legend of a bar chart: the color of each column key
Legend(figure) ==
    {[label |-> figure.artists[a].label, color |-> figure.artists[a].color] :
        a \in {a \in 1..Len(figure.artists) : figure.artists[a].op = "bar"}}

-----------------------------------------------------------------------------
(* src/utilities/graph_utils.py: the bar charts *)

NoGrid == [status |-> "none", index |-> <<>>, columns |-> <<>>, cells |-> <<>>]

\* the record of a render call that raised before it drew
RaisedCall(fn, df, path, error) ==
    [fn |-> fn, df |-> df, output_path |-> path, result |-> error,
     grid |-> NoGrid, legend |-> {}]

\* the end of every renderer: plt.savefig(output_path), then plt.close(). A
\* savefig that fails (an invalid path) writes nothing and raises, and the
\* plt.close() after it is not reached
SaveAndClose(fn, df, path, grid, figs, writeFails) ==
    IF writeFails
    THEN /\ figures' = figs
         /\ artifacts' = artifacts
         /\ calls' = Append(calls,
                [fn |-> fn, df |-> df, output_path |-> path,
                 result |-> "OSError", grid |-> grid,
                 legend |-> Legend(PltSavefig(figs))])
    ELSE /\ figures' = PltClose(figs)
         /\ artifacts' = {a \in artifacts : a.path # path}
                \cup {[path |-> path, content |-> PltSavefig(figs)]}
         /\ calls' = Append(calls,
                [fn |-> fn, df |-> df, output_path |-> path,
                 result |-> "saved", grid |-> grid,
                 legend |-> Legend(PltSavefig(figs))])

\* the figure of create_age_bar_chart at its plt.savefig
AgeBarChartFigure(figs, df) ==
    LET all == [i \in 1..Len(df) |-> i]
    IN  PltDrawAll(PltFigure(figs, <<100, 60>>),
            << [op |-> "barh", y |-> Column(df, all, "AssignedTo"),
                width |-> Column(df, all, "Age_BusinessDays"),
                color |-> "skyblue"],
               Text("xlabel", "Total Age in Business Days"),
               Text("ylabel", "Assigned To"),
               Text("title", "Total Age of Open Tickets by Assigned Person"),
               Text("invert_yaxis", "") >>
            \o [i \in 1..Len(df) |->
                  [op |-> "text", x |-> df[i]["Age_BusinessDays"],
                   bar |-> i, tickets |-> df[i]["TicketCount"]]])

create_age_bar_chart(df, output_path, writeFails) ==
    SaveAndClose("create_age_bar_chart", df, output_path, NoGrid,
                 AgeBarChartFigure(figures, df), writeFails)

\* the figure of a pivot chart at its plt.savefig
BarChartFigure(figs, table, stacked, figsize, title, xlabel, legend) ==
    PltDrawAll(DataFramePlotBar(figs, table, stacked, figsize),
        << Text("title", title),
           Text("xlabel", xlabel),
           Text("ylabel", "Number of Resolved Items"),
           Text("legend", legend),
           Text("tight_layout", "") >>)

MonthlyStackedFigure(figs, table) ==
    BarChartFigure(figs, table, TRUE, <<100, 70>>,
        "Resolved Items Per Month by Engineer (2024)", "Month", "Engineer")

MonthlyGroupedFigure(figs, table) ==
    BarChartFigure(figs, table, FALSE, <<100, 70>>,
        "Resolved Items Per Month by Engineer (Grouped)", "Month", "Engineer")

EngineerGroupedFigure(figs, table) ==
    BarChartFigure(figs, table, FALSE, <<120, 80>>,
        "Resolved Items Per Engineer by Month (Grouped)", "Engineer", "Month")

plot_resolved_items_per_month(df, output_path, writeFails) ==
    LET pivot_table == MonthlyPivot(df)
        fn == "plot_resolved_items_per_month"
    IN  IF pivot_table.status # "ok"
        THEN /\ calls' = Append(calls,
                    RaisedCall(fn, df, output_path, pivot_table.status))
             /\ UNCHANGED <<figures, artifacts>>
        ELSE SaveAndClose(fn, df, output_path, pivot_table,
                 MonthlyStackedFigure(figures, pivot_table), writeFails)

plot_grouped_resolved_items_per_month(df, output_path, writeFails) ==
    LET pivot_table == MonthlyPivot(df)
        fn == "plot_grouped_resolved_items_per_month"
    IN  IF pivot_table.status # "ok"
        THEN /\ calls' = Append(calls,
                    RaisedCall(fn, df, output_path, pivot_table.status))
             /\ UNCHANGED <<figures, artifacts>>
        ELSE SaveAndClose(fn, df, output_path, pivot_table,
                 MonthlyGroupedFigure(figures, pivot_table), writeFails)

plot_engineer_grouped_resolved_items(df, output_path, writeFails) ==
    LET pivot_table == EngineerPivot(df)
        fn == "plot_engineer_grouped_resolved_items"
    IN  IF pivot_table.status # "ok"
        THEN /\ calls' = Append(calls,
                    RaisedCall(fn, df, output_path, pivot_table.status))
             /\ UNCHANGED <<figures, artifacts>>
        ELSE SaveAndClose(fn, df, output_path, pivot_table,
                 EngineerGroupedFigure(figures, pivot_table), writeFails)

\* the default output_path of each renderer
DefaultPath(fn) ==
    CASE fn = "create_age_bar_chart" -> "age_bar_chart.png"
      [] fn = "plot_resolved_items_per_month" -> "resolved_month_chart.png"
      [] fn = "plot_grouped_resolved_items_per_month"
            -> "grouped_resolved_month_chart.png"
      [] fn = "plot_engineer_grouped_resolved_items"
            -> "engineer_grouped_resolved_chart.png"

\* the tables of resolved items: at least one and at most maxRows rows
ResolvedColumns == {"Closed by", "YearMonth", "ResolvedCount"}

ResolvedRows(engineers, months, counts) ==
    {[c \in ResolvedColumns |->
        CASE c = "Closed by" -> e
          [] c = "YearMonth" -> m
          [] c = "ResolvedCount" -> n] :
        e \in engineers, m \in months, n \in counts}

\* the tables of a single pivot
ResolvedTables ==
    TablesUpTo(ResolvedRows(1..NumEngineers, 1..NumMonths, 1..MaxCount), MaxRows)

\* the tables of the charts of a run of several calls: one or two rows over two
\* engineers and two months
RunResolvedTables == TablesUpTo(ResolvedRows(1..2, 1..2, {1}), 2)

\* the tables of open tickets per assignee of a run of several calls
AgeColumns == {"AssignedTo", "Age_BusinessDays", "TicketCount"}

AgeRows(engineers, ages, counts) ==
    {[c \in AgeColumns |->
        CASE c = "AssignedTo" -> e
          [] c = "Age_BusinessDays" -> a
          [] c = "TicketCount" -> n] :
        e \in engineers, a \in ages, n \in counts}

RunAgeTables == TablesUpTo(AgeRows(1..2, {5}, {1}), 2)

RenderInit ==
    /\ figures = <<>>
    /\ artifacts = {}
    /\ calls = <<>>

NotRender == UNCHANGED <<mapperVars, jitterVars, scatterVars>>

CreateAgeBarChart(df, writeFails) ==
    /\ create_age_bar_chart(df, DefaultPath("create_age_bar_chart"), writeFails)
    /\ NotRender

PlotResolvedItemsPerMonth(df, writeFails) ==
    /\ plot_resolved_items_per_month(df,
            DefaultPath("plot_resolved_items_per_month"), writeFails)
    /\ NotRender

PlotGroupedResolvedItemsPerMonth(df, writeFails) ==
    /\ plot_grouped_resolved_items_per_month(df,
            DefaultPath("plot_grouped_resolved_items_per_month"), writeFails)
    /\ NotRender

PlotEngineerGroupedResolvedItems(df, writeFails) ==
    /\ plot_engineer_grouped_resolved_items(df,
            DefaultPath("plot_engineer_grouped_resolved_items"), writeFails)
    /\ NotRender

-----------------------------------------------------------------------------
(* Specifications *)

MapperInit == slide = <<>> /\ JitterIdle /\ ScatterIdle /\ RenderInit

MapperNext ==
    \E label \in MapperLabels :
        \/ GetStagingText(label)
        \/ GetPriorityText(label)

\* a run of mapper calls
SpecMapper == MapperInit /\ [][MapperNext]_vars

JitterInit == slide = <<>> /\ JitterInputs /\ ScatterIdle /\ RenderInit

\* one call of add_jitter on every bounded input
SpecJitter == JitterInit /\ [][AddJitter]_vars

ScatterInit == slide = <<>> /\ JitterIdle /\ ScatterInputs /\ RenderInit

ScatterNext == LoadAndPrepareData \/ CreateScatterPlot \/ PltShowReturns

\* the script's main: load_and_prepare_data, then create_scatter_plot
SpecScatter == ScatterInit /\ [][ScatterNext]_vars

RenderIdleInit == slide = <<>> /\ JitterIdle /\ ScatterIdle /\ RenderInit

\* one call of a pivot chart on every bounded table, its file written
PivotNext ==
    \/ /\ calls = <<>>
       /\ \E df \in ResolvedTables : PlotResolvedItemsPerMonth(df, FALSE)
    \/ /\ calls = <<>>
       /\ \E df \in ResolvedTables : PlotGroupedResolvedItemsPerMonth(df, FALSE)
    \/ /\ calls = <<>>
       /\ \E df \in ResolvedTables : PlotEngineerGroupedResolvedItems(df, FALSE)

SpecPivot == RenderIdleInit /\ [][PivotNext]_vars

\* a run of render calls, any of which may fail to write its file
RenderNext ==
    \/ /\ Len(calls) < MaxRenderCalls
       /\ \E df \in RunAgeTables, writeFails \in BOOLEAN :
             CreateAgeBarChart(df, writeFails)
    \/ /\ Len(calls) < MaxRenderCalls
       /\ \E df \in RunResolvedTables, writeFails \in BOOLEAN :
             PlotResolvedItemsPerMonth(df, writeFails)
    \/ /\ Len(calls) < MaxRenderCalls
       /\ \E df \in RunResolvedTables, writeFails \in BOOLEAN :
             PlotGroupedResolvedItemsPerMonth(df, writeFails)
    \/ /\ Len(calls) < MaxRenderCalls
       /\ \E df \in RunResolvedTables, writeFails \in BOOLEAN :
             PlotEngineerGroupedResolvedItems(df, writeFails)

SpecRender == RenderIdleInit /\ [][RenderNext]_vars

-----------------------------------------------------------------------------
(* Claims about the mappers of src/constants.py *)

\* C2: get_staging_text and get_priority_text return for every label and never
\* raise: a key of the table returns its mapped text ('Triage' gives the glyphs
\* of the first stage), any other label returns exactly "-----" for staging and
\* "unknown" for priority ('P9' gives "unknown").
C2_MapperReturnsTextOrDefault ==
    \A i \in 1..Len(slide) :
        LET call == slide[i]
            table == IF call.fn = "get_staging_text"
                     THEN STAGING_TEXT_REPRESENTATION
                     ELSE PRIORITY_TEXT_REPRESENTATION
            default == IF call.fn = "get_staging_text" THEN "-----" ELSE "unknown"
        IN  /\ call.result.status = "returned"
            /\ call.label \in DOMAIN table => call.result.value = table[call.label]
            /\ call.label \notin DOMAIN table => call.result.value = default
            /\ (call.fn = "get_staging_text" /\ call.label = "Triage")
                  => call.result.value = "▰▱▱▱▱"
            /\ (call.fn = "get_priority_text" /\ call.label = "P9")
                  => call.result.value = "unknown"

\* a run that mapped the unmapped priority 'P9' and the staging label 'Triage'
C2_Witness ==
    /\ \E i \in 1..Len(slide) :
          /\ slide[i].fn = "get_priority_text"
          /\ slide[i].label = "P9"
          /\ slide[i].result = Returned("unknown")
    /\ \E i \in 1..Len(slide) :
          /\ slide[i].fn = "get_staging_text"
          /\ slide[i].label = "Triage"
          /\ slide[i].result.status = "returned"

-----------------------------------------------------------------------------
(* Claims about add_jitter *)

\* C5: for every magnitude m >= 0, every input sequence and every draw, the
\* output of add_jitter has the length of the input, each output element lies
\* in [v - m/2, v + m/2] for the numeric input element v at its position, and
\* with m = 0 the output equals the input (a missing element staying missing).
C5_JitterWithinHalfMagnitude ==
    jpc = "done" =>
        /\ Len(jittered) = Len(series)
        /\ \A i \in 1..Len(series) :
              ~IsNaN(series[i]) =>
                  /\ ~IsNaN(jittered[i])
                  /\ 20 * (jittered[i].num - series[i].num * Unit)
                        <= jitter_amount * Unit
                  /\ 20 * (series[i].num * Unit - jittered[i].num)
                        <= jitter_amount * Unit
        /\ jitter_amount = 0 =>
              \A i \in 1..Len(series) :
                  /\ IsNaN(jittered[i]) = IsNaN(series[i])
                  /\ jittered[i].num = (IF IsNaN(series[i]) THEN NaN.num
                                        ELSE series[i].num * Unit)

\* a call with a positive magnitude that moved one element up and put another
\* on the lower end of its interval
C5_Witness ==
    /\ jpc = "done"
    /\ jitter_amount > 0
    /\ \E i \in 1..Len(series) :
          ~IsNaN(series[i]) /\ jittered[i].num > series[i].num * Unit
    /\ \E i \in 1..Len(series) :
          /\ ~IsNaN(series[i])
          /\ 20 * (series[i].num * Unit - jittered[i].num) = jitter_amount * Unit

-----------------------------------------------------------------------------
(* Claims about load_and_prepare_data and create_scatter_plot *)

\* the (series, position) places at which the record of index label i is plotted
PlacesOf(i) ==
    {p \in (1..Len(scatter)) \X (1..Len(project_df)) :
        /\ p[2] <= Len(scatter[p[1]].index)
        /\ scatter[p[1]].index[p[2]] = i}

\* C6: create_scatter_plot emits exactly one series per key of the priority to
\* color mapping, in mapping order, labelled with the key and drawn in its
\* color; a record whose Priority is a key is in exactly that one series, a
\* record whose Priority is no key is in no series, and nothing fails: the
\* plot is drawn for every table, and plt.show() can return.
C6_OneSeriesPerMappedPriority ==
    /\ spc = "loaded" => ENABLED CreateScatterPlot
    /\ spc = "showing" => ENABLED PltShowReturns
    /\ spc \in {"showing", "shown"} =>
        /\ [k \in 1..Len(scatter) |-> scatter[k].label]
              = <<"P1 <U+1F525>", "P2", "P3", "P4">>
        /\ [k \in 1..Len(scatter) |-> scatter[k].c]
              = <<"red", "orange", "green", "blue">>
        /\ \A i \in 1..Len(project_df) :
              IF project_df[i]["Priority"] \in Keys(priority_color_mapping)
              THEN /\ Cardinality(PlacesOf(i)) = 1
                   /\ \A p \in PlacesOf(i) :
                         scatter[p[1]].label = project_df[i]["Priority"]
              ELSE PlacesOf(i) = {}

\* a plot of two records, one of a mapped priority and one of the unmapped 'P1'
C6_Witness ==
    /\ spc = "shown"
    /\ Len(project_df) = 2
    /\ project_df[1]["Priority"] = "P1"
    /\ project_df[2]["Priority"] = "P3"
    /\ scatter[3].index = <<2>>

\* C7: an effort or impact label outside its mapping yields a missing rank
\* (not 0, not one of 1..5) and a known label its rank 1..5; the missing value
\* stays missing through add_jitter, a record missing either dimension is not
\* drawn, the other records of mapped priority are drawn, and the run goes on.
C7_MissingRankStaysMissing ==
    /\ spc = "loaded" => ENABLED CreateScatterPlot
    /\ spc = "showing" => ENABLED PltShowReturns
    /\ spc \in {"loaded", "showing", "shown"} =>
        /\ Len(project_df) = Len(csv)
        /\ \A i \in 1..Len(csv) :
            LET e == csv[i]["Estimated Effort"]
                m == csv[i]["Estimated Impact"]
                ne == project_df[i]["Numerical Effort"]
                ni == project_df[i]["Numerical Impact"]
            IN  /\ IF e \in DOMAIN effort_mapping
                   THEN ne = Num(effort_mapping[e]) /\ ne.num \in 1..5
                   ELSE IsNaN(ne) /\ ne \notin {Num(k) : k \in 0..5}
                /\ IF m \in DOMAIN impact_mapping
                   THEN ni = Num(impact_mapping[m]) /\ ni.num \in 1..5
                   ELSE IsNaN(ni) /\ ni \notin {Num(k) : k \in 0..5}
    /\ spc \in {"showing", "shown"} =>
        \A k \in 1..Len(scatter) :
            \A j \in 1..Len(scatter[k].index) :
                LET i == scatter[k].index[j]
                    missing == \/ IsNaN(project_df[i]["Numerical Effort"])
                               \/ IsNaN(project_df[i]["Numerical Impact"])
                IN  /\ IsNaN(scatter[k].x[j]) = IsNaN(project_df[i]["Numerical Effort"])
                    /\ IsNaN(scatter[k].y[j]) = IsNaN(project_df[i]["Numerical Impact"])
                    /\ missing = (i \notin {d.index : d \in scatter[k].drawn})

\* a plot of two records of priority 'P3': the first, of the unknown effort
\* 'Years', is not drawn and the second is
C7_Witness ==
    /\ spc = "shown"
    /\ Len(csv) = 2
    /\ csv[1]["Estimated Effort"] = "Years" /\ csv[1]["Priority"] = "P3"
    /\ csv[2]["Estimated Effort"] = "Hours" /\ csv[2]["Estimated Impact"] = "High"
    /\ csv[2]["Priority"] = "P3"
    /\ {d.index : d \in scatter[3].drawn} = {2}

\* the records in the series before the k-th
RECURSIVE PlottedBefore(_, _)
PlottedBefore(plots, k) ==
    IF k <= 1 THEN 0 ELSE PlottedBefore(plots, k - 1) + Len(plots[k - 1].index)

\* C10: create_scatter_plot leaves the record table as it was (the inputs of
\* add_jitter, its 'Numerical Effort' and 'Numerical Impact' values, included),
\* and its add_jitter calls take from the shared random source exactly two
\* draws per plotted record, the x offset of a point from one draw and its y
\* offset from another, so that the two are chosen independently; plt.show()
\* takes no draw and leaves the table and the plotted series as they were.
C10_JitterFrameAndSeparateDraws ==
    [][/\ (spc = "showing" /\ spc' = "shown") =>
            /\ project_df' = project_df
            /\ csv' = csv
            /\ entropy' = entropy
            /\ scatter' = scatter
       /\ (spc = "loaded" /\ spc' = "showing") =>
            /\ project_df' = project_df
            /\ csv' = csv
            /\ SubSeq(entropy', 1, Len(entropy)) = entropy
            /\ Len(entropy') = Len(entropy)
                  + 2 * PlottedBefore(scatter', Len(scatter') + 1)
            /\ \A k \in 1..Len(scatter') :
                  LET n == Len(scatter'[k].index)
                      pos == Len(entropy) + 2 * PlottedBefore(scatter', k)
                  IN  \A j \in 1..n :
                        LET r == project_df[scatter'[k].index[j]]
                        IN  /\ scatter'[k].x[j] =
                                  AddOffset(r["Numerical Effort"],
                                      (2 * entropy'[pos + j] - RandResolution)
                                          * scatter_amount')
                            /\ scatter'[k].y[j] =
                                  AddOffset(r["Numerical Impact"],
                                      (2 * entropy'[pos + n + j] - RandResolution)
                                          * scatter_amount')
      ]_vars

\* a plotted point whose x offset is negative and whose y offset is positive
C10_Witness ==
    /\ spc = "shown"
    /\ scatter_amount > 0
    /\ \E k \in 1..Len(scatter) :
          \E j \in 1..Len(scatter[k].index) :
              LET r == project_df[scatter[k].index[j]]
              IN  /\ ~IsNaN(scatter[k].x[j]) /\ ~IsNaN(scatter[k].y[j])
                  /\ scatter[k].x[j].num < r["Numerical Effort"].num * Unit
                  /\ scatter[k].y[j].num > r["Numerical Impact"].num * Unit

-----------------------------------------------------------------------------
(* Claims about the pivot step and the bar charts *)

PivotCharts ==
    {"plot_resolved_items_per_month", "plot_grouped_resolved_items_per_month",
     "plot_engineer_grouped_resolved_items"}

\* the columns of the input that a pivot chart takes for its rows and columns
IndexAxis(fn) ==
    IF fn = "plot_engineer_grouped_resolved_items" THEN "Closed by" ELSE "YearMonth"

ColumnAxis(fn) ==
    IF fn = "plot_engineer_grouped_resolved_items" THEN "YearMonth" ELSE "Closed by"

Observed(df, c) == {df[i][c] : i \in 1..Len(df)}

\* the sum of the ResolvedCount of the first n rows of df at the pair (r, c)
RECURSIVE CountAt(_, _, _, _)
CountAt(call, n, r, c) ==
    IF n = 0 THEN 0
    ELSE CountAt(call, n - 1, r, c)
         + (IF /\ call.df[n][IndexAxis(call.fn)] = r
               /\ call.df[n][ColumnAxis(call.fn)] = c
            THEN call.df[n]["ResolvedCount"] ELSE 0)

RECURSIVE SumCells(_, _)
SumCells(cells, pairs) ==
    IF pairs = {} THEN 0
    ELSE LET rc == CHOOSE rc \in pairs : TRUE
         IN  cells[rc].num + SumCells(cells, pairs \ {rc})

\* C1: when more than one input row shares a (Closed by, YearMonth) pair, the
\* pivot neither fails nor keeps one of the rows: the cell of every observed
\* pair holds the sum of the ResolvedCount of the rows of that pair (0 for a
\* pair of no row).
C1_DuplicatePairsAreSummed ==
    \A k \in 1..Len(calls) :
        LET call == calls[k]
        IN  call.fn \in PivotCharts =>
              /\ call.grid.status = "ok"
              /\ \A r \in Observed(call.df, IndexAxis(call.fn)) :
                 \A c \in Observed(call.df, ColumnAxis(call.fn)) :
                    /\ <<r, c>> \in DOMAIN call.grid.cells
                    /\ call.grid.cells[<<r, c>>]
                          = Num(CountAt(call, Len(call.df), r, c))

\* C3: for every input of the pivot step there is a grid and it is dense: its
\* row keys are exactly the distinct values of the index axis, its column keys
\* exactly those of the column axis, and every pair of the cross product has a
\* numeric cell, which is 0 when no input row carries the pair (never missing).
C3_PivotGridIsDense ==
    \A k \in 1..Len(calls) :
        LET call == calls[k]
            grid == call.grid
            rows == Observed(call.df, IndexAxis(call.fn))
            cols == Observed(call.df, ColumnAxis(call.fn))
        IN  call.fn \in PivotCharts =>
              /\ grid.status = "ok"
              /\ Range(grid.index) = rows
              /\ Len(grid.index) = Cardinality(rows)
              /\ Range(grid.columns) = cols
              /\ Len(grid.columns) = Cardinality(cols)
              /\ DOMAIN grid.cells = rows \X cols
              /\ \A rc \in rows \X cols :
                    /\ ~IsNaN(grid.cells[rc])
                    /\ grid.cells[rc].num \in Nat
                    /\ (\A i \in 1..Len(call.df) :
                            \/ call.df[i][IndexAxis(call.fn)] # rc[1]
                            \/ call.df[i][ColumnAxis(call.fn)] # rc[2])
                          => grid.cells[rc] = Num(0)

\* C4: for an input no two rows of which share their (Closed by, YearMonth)
\* pair, the pivot yields a grid and the sum of its cells is the sum of the
\* ResolvedCount of the input, whichever axis is taken for the rows.
C4_PivotKeepsTheTotal ==
    \A k \in 1..Len(calls) :
        LET call == calls[k]
            all == [i \in 1..Len(call.df) |-> i]
        IN  (/\ call.fn \in PivotCharts
             /\ ~HasDuplicates(call.df, "Closed by", "YearMonth")) =>
              /\ call.grid.status = "ok"
              /\ SumCells(call.grid.cells, DOMAIN call.grid.cells)
                    = SumCells([i \in 1..Len(call.df) |->
                                   Num(call.df[i]["ResolvedCount"])],
                               1..Len(call.df))

\* the per-engineer chart of three rows of distinct pairs and differing counts,
\* one cell of whose grid is filled with zero
C4_Witness ==
    /\ Len(calls) = 1
    /\ calls[1].fn = "plot_engineer_grouped_resolved_items"
    /\ Len(calls[1].df) = 3
    /\ ~HasDuplicates(calls[1].df, "Closed by", "YearMonth")
    /\ calls[1].df[1]["ResolvedCount"] # calls[1].df[2]["ResolvedCount"]
    /\ calls[1].grid.status = "ok"
    /\ \E rc \in DOMAIN calls[1].grid.cells : calls[1].grid.cells[rc] = Num(0)

\* the figure a render call saves when no figure is open before it
FreshFigure(call) ==
    LET figs == CASE call.fn = "create_age_bar_chart"
                       -> AgeBarChartFigure(<<>>, call.df)
                  [] call.fn = "plot_resolved_items_per_month"
                       -> MonthlyStackedFigure(<<>>, MonthlyPivot(call.df))
                  [] call.fn = "plot_grouped_resolved_items_per_month"
                       -> MonthlyGroupedFigure(<<>>, MonthlyPivot(call.df))
                  [] call.fn = "plot_engineer_grouped_resolved_items"
                       -> EngineerGroupedFigure(<<>>, EngineerPivot(call.df))
    IN  PltSavefig(figs)

\* the calls that saved to a path
SavedTo(path) ==
    {k \in 1..Len(calls) :
        calls[k].output_path = path /\ calls[k].result = "saved"}

\* C8: in any sequence of render calls, a call whose save fails raises to its
\* caller and writes nothing, and every other call writes what it would have
\* written with no call before it: the file at each path is the fresh figure of
\* the last call that saved to it, whatever figures failed calls left open.
C8_WriteFailureStaysLocal ==
    /\ \A a \in artifacts :
          /\ SavedTo(a.path) # {}
          /\ LET last == CHOOSE k \in SavedTo(a.path) :
                              \A j \in SavedTo(a.path) : j <= k
             IN  a.content = FreshFigure(calls[last])
    /\ \A k \in 1..Len(calls) :
          /\ calls[k].result \in {"saved", "OSError", "ValueError"}
          /\ calls[k].result = "saved" =>
                \E a \in artifacts : a.path = calls[k].output_path
    /\ \A a, b \in artifacts : a.path = b.path => a = b

\* a run whose first call failed to write, leaving its figure open, and whose
\* second call, of another chart, saved its file
C8_Witness ==
    /\ Len(calls) = 2
    /\ calls[1].result = "OSError"
    /\ calls[2].result = "saved"
    /\ calls[1].fn = "plot_resolved_items_per_month"
    /\ calls[2].fn = "plot_engineer_grouped_resolved_items"
    /\ Len(figures) = 1
    /\ Cardinality(artifacts) = 1

\* C9: two calls of the bar renderers whose inputs have the same set of column
\* keys, in any row order, give each column key the same color; within one
\* render each column key has exactly one color, an entry of the tab20 palette.
C9_ColorsDependOnColumnKeysOnly ==
    /\ \A i, j \in 1..Len(calls) :
          (/\ calls[i].fn \in PivotCharts /\ calls[i].grid.status = "ok"
           /\ calls[j].fn \in PivotCharts /\ calls[j].grid.status = "ok"
           /\ Observed(calls[i].df, ColumnAxis(calls[i].fn))
                = Observed(calls[j].df, ColumnAxis(calls[j].fn)))
             => calls[i].legend = calls[j].legend
    /\ \A i \in 1..Len(calls) :
          (calls[i].fn \in PivotCharts /\ calls[i].grid.status = "ok") =>
             /\ \A key \in Observed(calls[i].df, ColumnAxis(calls[i].fn)) :
                   Cardinality({e \in calls[i].legend : e.label = key}) = 1
             /\ \A e \in calls[i].legend :
                   /\ e.color \in 0..(Tab20N - 1)
                   /\ e.label \in Observed(calls[i].df, ColumnAxis(calls[i].fn))

\* two monthly charts of the same two engineers, the rows of the second in the
\* reverse order of the first
C9_Witness ==
    /\ Len(calls) = 2
    /\ calls[1].fn = "plot_resolved_items_per_month"
    /\ calls[2].fn = "plot_grouped_resolved_items_per_month"
    /\ calls[1].grid.status = "ok" /\ calls[2].grid.status = "ok"
    /\ Len(calls[1].df) = 2
    /\ calls[1].df[1]["Closed by"] = 2 /\ calls[1].df[2]["Closed by"] = 1
    /\ calls[2].df = <<calls[1].df[2], calls[1].df[1]>>
    /\ Cardinality(calls[1].legend) = 2

=============================================================================
